---------------------------- MODULE Spec2Model ----------------------------
(***************************************************************************)
(* Model of the useGlobalClick hook (src/unnamed/part_000): the deferred   *)
(* registration of one global click listener on a map instance, its        *)
(* teardown, and the click handler handleGlobalClick with its guards, the  *)
(* panel-expand branch and the feature dispatch.                           *)
(*                                                                         *)
(* The map library, the panel store, the layer registry, the policy        *)
(* predicate and the two extractors are collaborators of the hook: what    *)
(* they return is an input of the step that calls them.                    *)
(***************************************************************************)
EXTENDS Integers, Sequences, FiniteSets, TLC

(***************************************************************************)
(* Bounds of the model                                                     *)
(***************************************************************************)
\* number of identities useCallback produces for handleGlobalClick in a run
MaxHandlers == 3

(***************************************************************************)
(* Program constants                                                       *)
(***************************************************************************)
\* minZoomLevel = 17 (default of the prop)
DefaultMinZoomLevel == 17

(***************************************************************************)
(* Value sets of the inputs                                                *)
(***************************************************************************)
Maps == {"m1", "m2"}
NoMap == "null"
NoCallback == "undefined"
Callbacks == {"cb1"}
MinZoomLevels == {DefaultMinZoomLevel - 1, DefaultMinZoomLevel}
Zooms == {DefaultMinZoomLevel - 1, DefaultMinZoomLevel, DefaultMinZoomLevel + 1}

NoLayer == "noLayer"
BuildingLayer == "bldg"
HistoricalLayer == "hist"
OtherLayer == "other"
LayerIds == {BuildingLayer, HistoricalLayer, OtherLayer}

\* coordinates of a Point feature, of the click, and those an extractor
\* writes into the record it returns
PointCoordinates == <<12, 41>>
ClickLngLat == <<13, 42>>
ExtractorCoordinates == <<0, 0>>

Geometries ==
    { [type |-> "Point", coordinates |-> PointCoordinates],
      [type |-> "Polygon", coordinates |-> <<>>] }

\* a rendered feature: feature.layer?.id and feature.geometry
Features == [layer : LayerIds \cup {NoLayer}, geometry : Geometries]

\* what mapInstance.queryRenderedFeatures returns: topmost feature first
RenderedLists == {<<>>} \cup { <<f>> : f \in Features }

\* what getInteractionLayerIds() returns
HistoricalLists == { <<>>, <<HistoricalLayer>> }
\* the static list unclusteredLayerIds
BuildingLists == { <<>>, <<BuildingLayer>> }

PanelStates == [isOpen : BOOLEAN, isFullscreen : BOOLEAN, showOverview : BOOLEAN]

Range(s) == { s[i] : i \in 1..Len(s) }

VARIABLES
    handleGlobalClick,   \* the current handler: its identity and what it closes over
    hasRegisteredRef,    \* hasRegisteredRef.current
    cleanupFn,           \* the cleanup the last effect run returned, or NoCleanup
    pc,                  \* where the component is in its commit
    clickListeners,      \* per map: the "click" listeners, in order of attachment
    styleLoadOnce,       \* per map: the pending one-shot "style.load" subscriptions
    styleLoaded,         \* per map: what isStyleLoaded() returns
    firing,              \* one-shot callbacks of a "style.load" being dispatched
    panelStore,          \* usePanelStore state
    unclusteredLayerIds, \* the static building layer list
    click,               \* the click event being dispatched, or NoClick
    clickQueue,          \* listeners the current click has still to reach
    res,                 \* what the last handler invocation, or adapter call, did
    teardown             \* what the cleanup of the commit in progress did

vars == << handleGlobalClick, hasRegisteredRef, cleanupFn, pc, clickListeners,
           styleLoadOnce, styleLoaded, firing, panelStore, unclusteredLayerIds,
           click, clickQueue, res, teardown >>

Handler(id, m, cb, z) ==
    [id |-> id, mapInstance |-> m, onShowDetailedInfo |-> cb, minZoomLevel |-> z]

NoHandler == Handler(0, NoMap, NoCallback, DefaultMinZoomLevel)
NoCleanup == NoHandler
NoClick == [map |-> NoMap]
NoResult == [handler |-> NoHandler]
NoTeardown == [ran |-> FALSE]

\* the props of the current render are those the current handler closes over
mapInstance == handleGlobalClick.mapInstance
onShowDetailedInfo == handleGlobalClick.onShowDetailedInfo
minZoomLevel == handleGlobalClick.minZoomLevel

\* no map event is being dispatched
Quiet == firing = <<>> /\ click.map = NoMap

(***************************************************************************)
(* The map's listener lists                                                *)
(***************************************************************************)
\* map.on(type, listener): appended unless the same listener is already there
MapOn(ls, h) == IF h \in Range(ls) THEN ls ELSE Append(ls, h)

\* map.off(type, listener): the listener is removed
MapOff(ls, h) == SelectSeq(ls, LAMBDA x : x # h)


(***************************************************************************)
(* Registration: the body of the useEffect                                 *)
(***************************************************************************)
\* registerEvents(): attach now when the style is loaded, else subscribe
\* once to "style.load"
registerEvents(h, loaded, ls, once, flag) ==
    LET m == h.mapInstance
    IN  IF loaded[m]
        THEN [listeners |-> [ls EXCEPT ![m] = MapOn(@, h)],
              once |-> once,
              flag |-> TRUE]
        ELSE [listeners |-> ls,
              once |-> [once EXCEPT ![m] = Append(@, h)],
              flag |-> flag]

\* the callback given to mapInstance.once("style.load", ...)
styleLoadCallback(h, ls, flag) ==
    [listeners |-> [ls EXCEPT ![h.mapInstance] = MapOn(@, h)],
     flag |-> TRUE]

\* the effect body: the early return, else registerEvents() and a cleanup
effectBody(h, loaded, ls, once, flag) ==
    IF h.mapInstance = NoMap \/ flag
    THEN [listeners |-> ls, once |-> once, flag |-> flag, cleanup |-> NoCleanup]
    ELSE LET r == registerEvents(h, loaded, ls, once, flag)
         IN  [listeners |-> r.listeners, once |-> r.once, flag |-> r.flag,
              cleanup |-> h]

\* effectCleanup with the flag reset inside the try block, after the detach
effectCleanupFlagInTry(h, ls, flag, offThrows, detached) ==
    LET m == h.mapInstance
        removed == [ls EXCEPT ![m] = MapOff(@, h)]
    IN  IF flag
        THEN IF offThrows
             THEN [listeners |-> IF detached THEN removed ELSE ls,
                   flag |-> TRUE, offCalled |-> TRUE, offThrew |-> TRUE,
                   logged |-> FALSE, warned |-> TRUE, raised |-> FALSE]
             ELSE [listeners |-> removed,
                   flag |-> FALSE, offCalled |-> TRUE, offThrew |-> FALSE,
                   logged |-> TRUE, warned |-> FALSE, raised |-> FALSE]
        ELSE [listeners |-> ls,
              flag |-> FALSE, offCalled |-> FALSE, offThrew |-> FALSE,
              logged |-> FALSE, warned |-> FALSE, raised |-> FALSE]

\* the cleanup function of the effect that ran for handler h.  offThrows:
\* mapInstance.off raises; detached: the listener was removed all the same.
effectCleanup(h, ls, flag, offThrows, detached) ==
    LET m == h.mapInstance
        removed == [ls EXCEPT ![m] = MapOff(@, h)]
    IN  IF flag
        THEN IF offThrows
             THEN [listeners |-> IF detached THEN removed ELSE ls,
                   flag |-> FALSE, offCalled |-> TRUE, offThrew |-> TRUE,
                   logged |-> FALSE, warned |-> TRUE, raised |-> FALSE]
             ELSE [listeners |-> removed,
                   flag |-> FALSE, offCalled |-> TRUE, offThrew |-> FALSE,
                   logged |-> TRUE, warned |-> FALSE, raised |-> FALSE]
        ELSE [listeners |-> ls,
              flag |-> FALSE, offCalled |-> FALSE, offThrew |-> FALSE,
              logged |-> FALSE, warned |-> FALSE, raised |-> FALSE]

(***************************************************************************)
(* Click handling                                                          *)
(***************************************************************************)
Undefined == "undefined"

\* one observable effect of a handler invocation
Effect(op, arg) == [op |-> op, arg |-> arg]

\* queryInteractiveFeatures without the return on an empty layer list
queryInteractiveFeaturesUnguarded(m, buildingIds, historicalIds, rendered) ==
    IF m = NoMap
    THEN [defined |-> FALSE, features |-> <<>>, queried |-> FALSE]
    ELSE [defined |-> TRUE, features |-> rendered, queried |-> TRUE]

\* queryInteractiveFeatures(point): the layer list is rebuilt on every call;
\* rendered is what mapInstance.queryRenderedFeatures returns for it
queryInteractiveFeatures(m, buildingIds, historicalIds, rendered) ==
    LET interactiveLayerIds == buildingIds \o historicalIds
    IN  IF Len(interactiveLayerIds) = 0
        THEN [defined |-> TRUE, features |-> <<>>, queried |-> FALSE]
        ELSE IF m = NoMap
             THEN [defined |-> FALSE, features |-> <<>>, queried |-> FALSE]
             ELSE [defined |-> TRUE, features |-> rendered, queried |-> TRUE]

\* zoomTooLow with < in place of <=
zoomTooLowStrict(policyOk, currentZoom, minZoom) ==
    ~policyOk \/ currentZoom < minZoom

\* the zoom guard: !canInteract(currentZoom, ...) || currentZoom <= minZoomLevel
zoomTooLow(policyOk, currentZoom, minZoom) ==
    ~policyOk \/ currentZoom <= minZoom

\* panelOpenNotFullscreen that does not look at isFullscreen
panelOpenAnyMode(store) == store.isOpen

\* the panel guard
panelOpenNotFullscreen(store) == store.isOpen /\ ~store.isFullscreen

\* expandPanel that leaves showOverview as it is
expandPanelFullscreenOnly(store) == [store EXCEPT !.isFullscreen = TRUE]

\* expandPanel that replaces the store's state instead of merging into it
expandPanelReplace(store) ==
    [isOpen |-> FALSE, isFullscreen |-> TRUE, showOverview |-> TRUE]

\* usePanelStore.setState({isFullscreen: true, showOverview: true})
expandPanel(store) ==
    [store EXCEPT !.isFullscreen = TRUE, !.showOverview = TRUE]

\* e.preventDefault() and the three calls on e.originalEvent
claimEvent ==
    << Effect("preventDefault", <<>>),
       Effect("originalEvent.preventDefault", <<>>),
       Effect("originalEvent.stopPropagation", <<>>),
       Effect("originalEvent.stopImmediatePropagation", <<>>) >>

\* the display coordinates of a hit
displayCoordinates(feature, lngLat) ==
    IF feature.geometry.type = "Point"
    THEN feature.geometry.coordinates
    ELSE lngLat

\* getBuildingLocationInfo / getHistoricalLocationInfo: a record of the
\* feature with the coordinates the extractor chose
getLocationInfo(kind, feature) ==
    [kind |-> kind, layer |-> feature.layer, coordinates |-> ExtractorCoordinates]

\* withCoordinates that keeps the coordinates of the extractor
withCoordinatesKept(info, coordinates) == info

\* locationInfo.coordinates = coordinates
withCoordinates(info, coordinates) == [info EXCEPT !.coordinates = coordinates]

\* dispatchFeature that takes every layer outside the building list for a
\* historical one
dispatchFeatureUnchecked(h, e, feature, buildingIds) ==
    LET coordinates == displayCoordinates(feature, e.lngLat)
        kind == IF feature.layer \in Range(buildingIds)
                THEN "building" ELSE "historical"
        extractor == IF kind = "building"
                     THEN "getBuildingLocationInfo"
                     ELSE "getHistoricalLocationInfo"
    IN  claimEvent \o
        << Effect(extractor, feature),
           Effect("onShowDetailedInfo",
                  [callback |-> h.onShowDetailedInfo,
                   info |-> withCoordinates(getLocationInfo(kind, feature),
                                            coordinates)]) >>

\* dispatchFeature that classifies against the building list only
dispatchFeatureBuildingOnly(h, e, feature, buildingIds) ==
    LET layerId == feature.layer
        coordinates == displayCoordinates(feature, e.lngLat)
    IN  IF layerId \in Range(buildingIds)
        THEN LET info == getLocationInfo("building", feature)
             IN  claimEvent \o
                 << Effect("getBuildingLocationInfo", feature),
                    Effect("onShowDetailedInfo",
                           [callback |-> h.onShowDetailedInfo,
                            info |-> withCoordinates(info, coordinates)]) >>
        ELSE claimEvent \o << Effect("console.warn", layerId) >>

\* dispatchFeature that claims the event after it has dispatched
dispatchFeatureClaimLast(h, e, feature, buildingIds) ==
    LET layerId == feature.layer
        coordinates == displayCoordinates(feature, e.lngLat)
    IN  IF layerId \in Range(buildingIds)
        THEN LET info == getLocationInfo("building", feature)
             IN  << Effect("getBuildingLocationInfo", feature),
                    Effect("onShowDetailedInfo",
                           [callback |-> h.onShowDetailedInfo,
                            info |-> withCoordinates(info, coordinates)]) >>
                 \o claimEvent
        ELSE IF layerId \in Range(e.historicalAtClassify)
        THEN LET info == getLocationInfo("historical", feature)
             IN  << Effect("getHistoricalLocationInfo", feature),
                    Effect("onShowDetailedInfo",
                           [callback |-> h.onShowDetailedInfo,
                            info |-> withCoordinates(info, coordinates)]) >>
                 \o claimEvent
        ELSE << Effect("console.warn", layerId) >> \o claimEvent

\* dispatchFeature with the two extractors exchanged
dispatchFeatureSwapped(h, e, feature, buildingIds) ==
    LET layerId == feature.layer
        coordinates == displayCoordinates(feature, e.lngLat)
    IN  IF layerId \in Range(buildingIds)
        THEN LET info == getLocationInfo("historical", feature)
             IN  claimEvent \o
                 << Effect("getHistoricalLocationInfo", feature),
                    Effect("onShowDetailedInfo",
                           [callback |-> h.onShowDetailedInfo,
                            info |-> withCoordinates(info, coordinates)]) >>
        ELSE IF layerId \in Range(e.historicalAtClassify)
        THEN LET info == getLocationInfo("building", feature)
             IN  claimEvent \o
                 << Effect("getBuildingLocationInfo", feature),
                    Effect("onShowDetailedInfo",
                           [callback |-> h.onShowDetailedInfo,
                            info |-> withCoordinates(info, coordinates)]) >>
        ELSE claimEvent \o << Effect("console.warn", layerId) >>

\* the branch taken once the topmost feature has a layer id
dispatchFeature(h, e, feature, buildingIds) ==
    LET layerId == feature.layer
        coordinates == displayCoordinates(feature, e.lngLat)
    IN  IF layerId \in Range(buildingIds)
        THEN LET info == getLocationInfo("building", feature)
             IN  claimEvent \o
                 << Effect("getBuildingLocationInfo", feature),
                    Effect("onShowDetailedInfo",
                           [callback |-> h.onShowDetailedInfo,
                            info |-> withCoordinates(info, coordinates)]) >>
        ELSE IF layerId \in Range(e.historicalAtClassify)
        THEN LET info == getLocationInfo("historical", feature)
             IN  claimEvent \o
                 << Effect("getHistoricalLocationInfo", feature),
                    Effect("onShowDetailedInfo",
                           [callback |-> h.onShowDetailedInfo,
                            info |-> withCoordinates(info, coordinates)]) >>
        ELSE claimEvent \o << Effect("console.warn", layerId) >>

\* hitFeature that claims the event before it looks at the layer id
hitFeatureClaimFirst(h, e, q, buildingIds) ==
    IF ~q.defined \/ Len(q.features) = 0
    THEN [effects |-> <<>>, ret |-> Undefined]
    ELSE LET feature == q.features[1]
         IN  IF feature.layer = NoLayer
             THEN [effects |-> claimEvent, ret |-> Undefined]
             ELSE [effects |-> dispatchFeature(h, e, feature, buildingIds),
                   ret |-> "false"]

\* the handler from the query's result on: no hit and no layer id return
\* silently, a layer id claims the event and dispatches
hitFeature(h, e, q, buildingIds) ==
    IF ~q.defined \/ Len(q.features) = 0
    THEN [effects |-> <<>>, ret |-> Undefined]
    ELSE LET feature == q.features[1]
         IN  IF feature.layer = NoLayer
             THEN [effects |-> <<>>, ret |-> Undefined]
             ELSE [effects |-> dispatchFeature(h, e, feature, buildingIds),
                   ret |-> "false"]

\* handleGlobalClick(e) for the handler h: the store it leaves, the effects
\* it has in order, and what it returns
runHandler(h, e, loaded, store, buildingIds) ==
    LET silent == [store |-> store, effects |-> <<>>, ret |-> Undefined]
    IN  IF h.mapInstance = NoMap \/ h.onShowDetailedInfo = NoCallback
        THEN silent
        ELSE IF ~loaded[h.mapInstance]
        THEN silent
        ELSE IF zoomTooLow(e.canInteract, e.zoom, h.minZoomLevel)
        THEN silent
        ELSE IF panelOpenNotFullscreen(store)
        THEN [store |-> expandPanel(store), effects |-> <<>>, ret |-> "false"]
        ELSE LET q == queryInteractiveFeatures(h.mapInstance, buildingIds,
                                               e.historicalAtQuery, e.rendered)
                 queryEffects ==
                     IF q.queried
                     THEN << Effect("queryRenderedFeatures",
                                    buildingIds \o e.historicalAtQuery) >>
                     ELSE <<>>
                 r == hitFeature(h, e, q, buildingIds)
             IN  [store |-> store, effects |-> queryEffects \o r.effects,
                  ret |-> r.ret]

(***************************************************************************)
(* The state machine                                                       *)
(***************************************************************************)
ClosedPanel == [isOpen |-> FALSE, isFullscreen |-> FALSE, showOverview |-> FALSE]

ClickEvents ==
    [zoom : Zooms, canInteract : BOOLEAN, rendered : RenderedLists,
     lngLat : {ClickLngLat},
     historicalAtQuery : HistoricalLists, historicalAtClassify : HistoricalLists]

\* the number of onShowDetailedInfo invocations among a handler's effects
CallbackCount(effects) ==
    Cardinality({ i \in 1..Len(effects) : effects[i].op = "onShowDetailedInfo" })

\* the hook after its first render, before its first effect has run
Mounted(callbacks, minZooms) ==
    /\ \E m \in Maps \cup {NoMap}, cb \in callbacks \cup {NoCallback},
          z \in minZooms :
           handleGlobalClick = Handler(1, m, cb, z)
    /\ hasRegisteredRef = FALSE
    /\ cleanupFn = NoCleanup
    /\ pc = "effect"
    /\ clickListeners = [m \in Maps |-> <<>>]
    /\ styleLoadOnce = [m \in Maps |-> <<>>]
    /\ styleLoaded \in [Maps -> BOOLEAN]
    /\ firing = <<>>
    /\ panelStore = ClosedPanel
    /\ click = NoClick
    /\ clickQueue = <<>>
    /\ res = NoResult
    /\ teardown = NoTeardown

\* the default minZoomLevel and a building layer list that is not empty
Init ==
    /\ Mounted(Callbacks, {DefaultMinZoomLevel})
    /\ unclusteredLayerIds = <<BuildingLayer>>

\* either minZoomLevel, the building layer list being empty or not
ClickInit ==
    /\ Mounted(Callbacks, MinZoomLevels)
    /\ unclusteredLayerIds \in BuildingLists

\* a render with changed props: useCallback yields a new handler and the
\* effect is scheduled to run again (its cleanup first).  A callback passed
\* again may be a new function that does the same (an inline function).
Render(m, cb, z) ==
    /\ pc = "idle" /\ Quiet
    /\ handleGlobalClick.id < MaxHandlers
    /\ \/ <<m, cb, z>> # <<mapInstance, onShowDetailedInfo, minZoomLevel>>
       \/ cb # NoCallback
    /\ handleGlobalClick' = Handler(handleGlobalClick.id + 1, m, cb, z)
    /\ pc' = "cleanup"
    /\ UNCHANGED << hasRegisteredRef, cleanupFn, clickListeners, styleLoadOnce,
                    styleLoaded, firing, panelStore, unclusteredLayerIds,
                    click, clickQueue, res, teardown >>

\* the owning component unmounts: the cleanup runs and no effect follows
Unmount ==
    /\ pc = "idle" /\ Quiet
    /\ pc' = "unmount"
    /\ UNCHANGED << handleGlobalClick, hasRegisteredRef, cleanupFn,
                    clickListeners, styleLoadOnce, styleLoaded, firing,
                    panelStore, unclusteredLayerIds, click, clickQueue, res,
                    teardown >>

\* the cleanup of the previous effect run, when that run returned one
RunCleanup(faults) ==
    /\ pc \in {"cleanup", "unmount"}
    /\ IF cleanupFn = NoCleanup
       THEN UNCHANGED << hasRegisteredRef, clickListeners, teardown >>
       ELSE \E offThrows \in faults, detached \in BOOLEAN :
              /\ (~hasRegisteredRef => ~offThrows)
              /\ (~offThrows => detached)
              /\ LET r == effectCleanup(cleanupFn, clickListeners,
                                        hasRegisteredRef, offThrows, detached)
                 IN  /\ clickListeners' = r.listeners
                     /\ hasRegisteredRef' = r.flag
                     /\ teardown' = [ran |-> TRUE, offCalled |-> r.offCalled,
                                     offThrew |-> r.offThrew,
                                     logged |-> r.logged, warned |-> r.warned,
                                     raised |-> r.raised]
    /\ cleanupFn' = NoCleanup
    /\ pc' = IF pc = "cleanup" THEN "effect" ELSE "unmounted"
    /\ UNCHANGED << handleGlobalClick, styleLoadOnce, styleLoaded, firing,
                    panelStore, unclusteredLayerIds, click, clickQueue, res >>

\* the effect body runs for the current handler
RunEffect ==
    /\ pc = "effect"
    /\ LET r == effectBody(handleGlobalClick, styleLoaded, clickListeners,
                           styleLoadOnce, hasRegisteredRef)
       IN  /\ clickListeners' = r.listeners
           /\ styleLoadOnce' = r.once
           /\ hasRegisteredRef' = r.flag
           /\ cleanupFn' = r.cleanup
    /\ pc' = "idle"
    /\ teardown' = NoTeardown
    /\ UNCHANGED << handleGlobalClick, styleLoaded, firing, panelStore,
                    unclusteredLayerIds, click, clickQueue, res >>

\* isStyleLoaded() of a map changes value
StyleChange(m) ==
    /\ pc \in {"idle", "unmounted"} /\ Quiet
    /\ styleLoaded' = [styleLoaded EXCEPT ![m] = ~@]
    /\ UNCHANGED << handleGlobalClick, hasRegisteredRef, cleanupFn, pc,
                    clickListeners, styleLoadOnce, firing, panelStore,
                    unclusteredLayerIds, click, clickQueue, res, teardown >>

\* the map fires "style.load": its one-shot subscriptions are taken off the
\* map and called in the order they were made
StyleLoad(m) ==
    /\ pc \in {"idle", "unmounted"} /\ Quiet
    /\ styleLoadOnce[m] # <<>>
    /\ firing' = styleLoadOnce[m]
    /\ styleLoadOnce' = [styleLoadOnce EXCEPT ![m] = <<>>]
    /\ UNCHANGED << handleGlobalClick, hasRegisteredRef, cleanupFn, pc,
                    clickListeners, styleLoaded, panelStore,
                    unclusteredLayerIds, click, clickQueue, res, teardown >>

\* one one-shot "style.load" callback runs
OnceCallback ==
    /\ firing # <<>>
    /\ LET r == styleLoadCallback(Head(firing), clickListeners, hasRegisteredRef)
       IN  /\ clickListeners' = r.listeners
           /\ hasRegisteredRef' = r.flag
    /\ firing' = Tail(firing)
    /\ UNCHANGED << handleGlobalClick, cleanupFn, pc, styleLoadOnce, styleLoaded,
                    panelStore, unclusteredLayerIds, click, clickQueue, res,
                    teardown >>

\* other UI code writes the panel store
PanelWrite(s) ==
    /\ pc \in {"idle", "unmounted"} /\ Quiet
    /\ s # panelStore
    /\ panelStore' = s
    /\ UNCHANGED << handleGlobalClick, hasRegisteredRef, cleanupFn, pc,
                    clickListeners, styleLoadOnce, styleLoaded, firing,
                    unclusteredLayerIds, click, clickQueue, res, teardown >>

\* the map dispatches a click event to its click listeners
ClickFire(m, e) ==
    /\ pc \in {"idle", "unmounted"} /\ Quiet
    /\ clickListeners[m] # <<>>
    /\ click' = [map |-> m, event |-> e, calls |-> 0]
    /\ clickQueue' = clickListeners[m]
    /\ res' = NoResult
    /\ UNCHANGED << handleGlobalClick, hasRegisteredRef, cleanupFn, pc,
                    clickListeners, styleLoadOnce, styleLoaded, firing,
                    panelStore, unclusteredLayerIds, teardown >>

\* the next click listener handles the event
HandleClick ==
    /\ clickQueue # <<>>
    /\ LET h == Head(clickQueue)
           r == runHandler(h, click.event, styleLoaded, panelStore,
                           unclusteredLayerIds)
       IN  /\ res' = [handler |-> h, before |-> panelStore, store |-> r.store,
                      effects |-> r.effects, ret |-> r.ret]
           /\ panelStore' = r.store
           /\ click' = [click EXCEPT !.calls = @ + CallbackCount(r.effects)]
    /\ clickQueue' = Tail(clickQueue)
    /\ UNCHANGED << handleGlobalClick, hasRegisteredRef, cleanupFn, pc,
                    clickListeners, styleLoadOnce, styleLoaded, firing,
                    unclusteredLayerIds, teardown >>

\* the dispatch of the click returns
ClickDone ==
    /\ click.map # NoMap
    /\ clickQueue = <<>>
    /\ click' = NoClick
    /\ res' = NoResult
    /\ UNCHANGED << handleGlobalClick, hasRegisteredRef, cleanupFn, pc,
                    clickListeners, styleLoadOnce, styleLoaded, firing,
                    panelStore, unclusteredLayerIds, clickQueue, teardown >>

\* clicks that reach the feature branch, one per layer class
SampleClicks ==
    { e \in ClickEvents :
        /\ e.zoom = DefaultMinZoomLevel + 1 /\ e.canInteract
        /\ e.historicalAtQuery = <<HistoricalLayer>>
        /\ e.historicalAtClassify = <<HistoricalLayer>>
        /\ e.rendered # <<>>
        /\ e.rendered[1].geometry.type = "Point"
        /\ e.rendered[1].layer \in {BuildingLayer, HistoricalLayer} }

\* The hook through its whole life: renders with changed props, unmount,
\* style events, and clicks that hit a feature while the panel is closed.
\* faults: whether mapInstance.off can raise.
Life(faults) ==
    \/ \E m \in Maps \cup {NoMap}, cb \in Callbacks \cup {NoCallback} :
          Render(m, cb, DefaultMinZoomLevel)
    \/ Unmount
    \/ RunCleanup(faults)
    \/ RunEffect
    \/ \E m \in Maps : StyleChange(m)
    \/ \E m \in Maps : StyleLoad(m)
    \/ OnceCallback
    \/ \E m \in Maps, e \in SampleClicks : ClickFire(m, e)
    \/ HandleClick
    \/ ClickDone

Next == Life(BOOLEAN)

Spec == Init /\ [][Next]_vars

\* the same with a mapInstance.off that never raises
DetachOkNext == Life({FALSE})

DetachOkSpec == Init /\ [][DetachOkNext]_vars

\* One mounted hook with the props of its first render, under every click
\* event and every panel state.
ClickNext ==
    \/ RunEffect
    \/ \E m \in Maps : StyleChange(m)
    \/ \E m \in Maps : StyleLoad(m)
    \/ OnceCallback
    \/ \E s \in PanelStates : PanelWrite(s)
    \/ \E m \in Maps, e \in ClickEvents : ClickFire(m, e)
    \/ HandleClick
    \/ ClickDone

ClickSpec == ClickInit /\ [][ClickNext]_vars

\* Clicks, the panel store and the style as in ClickSpec, and the component
\* may unmount at any time, which runs the teardown of its registration.
PanelNext ==
    \/ ClickNext
    \/ Unmount
    \/ RunCleanup(BOOLEAN)

PanelSpec == ClickInit /\ [][PanelNext]_vars

\* One registration and no teardown: the component stays mounted with the
\* props it has.  What the hook's code has begun it finishes (the effect of
\* a commit, a one-shot callback of a fired event, a handler of a click); the
\* map decides when isStyleLoaded() changes and whether "style.load" fires
\* again: the event marks the arrival of the style sheet, while
\* isStyleLoaded() is also false while sources or images of a style that
\* has arrived are loading, so nothing obliges the map to fire it once a
\* subscription is made.
LiveNext ==
    \/ RunEffect
    \/ \E m \in Maps : StyleChange(m)
    \/ \E m \in Maps : StyleLoad(m)
    \/ OnceCallback
    \/ \E m \in Maps, e \in SampleClicks : ClickFire(m, e)
    \/ HandleClick
    \/ ClickDone

LiveSpec ==
    /\ Init
    /\ [][LiveNext]_vars
    /\ WF_vars(RunEffect)
    /\ WF_vars(OnceCallback)
    /\ WF_vars(HandleClick)
    /\ WF_vars(ClickDone)

\* queryInteractiveFeatures(point) called on its own, as the function it is:
\* with the mapInstance it closes over, which may be null, the static
\* building list, and what getInteractionLayerIds() and the map return
CallQuery(historicalIds, rendered) ==
    /\ res' = [handler |-> NoHandler,
               map |-> mapInstance,
               layerIds |-> unclusteredLayerIds \o historicalIds,
               rendered |-> rendered,
               query |-> queryInteractiveFeatures(mapInstance,
                             unclusteredLayerIds, historicalIds, rendered)]
    /\ UNCHANGED << handleGlobalClick, hasRegisteredRef, cleanupFn, pc,
                    clickListeners, styleLoadOnce, styleLoaded, firing,
                    panelStore, unclusteredLayerIds, click, clickQueue,
                    teardown >>

QueryNext ==
    \E historicalIds \in HistoricalLists, rendered \in RenderedLists :
        CallQuery(historicalIds, rendered)

QuerySpec == ClickInit /\ [][QueryNext]_vars

(***************************************************************************)
(* Vocabulary of the properties                                            *)
(***************************************************************************)
\* a handler invocation has just ended: res is what it did, click.event the
\* event it got, res.before the panel store it found
Handled == res.handler.id # 0

Ops(effects) == { effects[i].op : i \in 1..Len(effects) }

Count(effects, op) ==
    Cardinality({ i \in 1..Len(effects) : effects[i].op = op })

ClaimOps ==
    { "preventDefault", "originalEvent.preventDefault",
      "originalEvent.stopPropagation", "originalEvent.stopImmediatePropagation" }

ExtractorOps == { "getBuildingLocationInfo", "getHistoricalLocationInfo" }

LogOps == { "console.warn", "console.log" }

\* the invocation passed the readiness and zoom guards
GuardsPassed ==
    /\ res.handler.mapInstance # NoMap
    /\ res.handler.onShowDetailedInfo # NoCallback
    /\ styleLoaded[res.handler.mapInstance]
    /\ click.event.canInteract
    /\ click.event.zoom > res.handler.minZoomLevel

\* the invocation found the panel open and not fullscreen
PanelWasOpenNotFullscreen == res.before.isOpen /\ ~res.before.isFullscreen

\* the invocation took the panel-expand branch
TookPanelBranch == GuardsPassed /\ PanelWasOpenNotFullscreen

\* the invocation queried the map and got a topmost feature
GotTopmost ==
    /\ GuardsPassed /\ ~PanelWasOpenNotFullscreen
    /\ Len(unclusteredLayerIds \o click.event.historicalAtQuery) > 0
    /\ Len(click.event.rendered) > 0

Topmost == click.event.rendered[1]

\* the topmost feature has a layer id that is in neither list
Unclassified ==
    /\ GotTopmost
    /\ Topmost.layer # NoLayer
    /\ Topmost.layer \notin Range(unclusteredLayerIds)
    /\ Topmost.layer \notin Range(click.event.historicalAtClassify)

(***************************************************************************)
(* C1  At most one click listener of the coordinator is attached to any    *)
(*     map instance, in every reachable state.                             *)
(* Fails: a one-shot "style.load" subscription outlives the teardown of    *)
(* the effect run that made it.                                            *)
(***************************************************************************)
C1_AtMostOneListener == \A m \in Maps : Len(clickListeners[m]) <= 1

(***************************************************************************)
(* C2  A click listener is attached only in the transition from            *)
(*     Unregistered (flag false) to Registered, never while the flag is    *)
(*     already true, and an effect run that finds the flag true attaches   *)
(*     nothing and subscribes to nothing.                                  *)
(* Fails in its first half: the second of two pending one-shot callbacks   *)
(* attaches while the flag is already true.                                *)
(***************************************************************************)
Attached ==
    \E m \in Maps : Len(clickListeners'[m]) > Len(clickListeners[m])

C2_AttachOnlyFromUnregistered ==
    [][ /\ Attached => ~hasRegisteredRef
        /\ (pc = "effect" /\ hasRegisteredRef) =>
              /\ clickListeners' = clickListeners
              /\ styleLoadOnce' = styleLoadOnce ]_vars

(***************************************************************************)
(* C3  Whenever the cleanup of the effect runs, it ends with the flag      *)
(*     false and raises nothing, whether the flag was true or false and    *)
(*     whether mapInstance.off succeeded or threw; a throwing detach       *)
(*     produces a warning and nothing else.                                *)
(***************************************************************************)
C3_TeardownResetsFlag ==
    [][ (pc \in {"cleanup", "unmount"} /\ cleanupFn # NoCleanup) =>
           /\ hasRegisteredRef' = FALSE
           /\ teardown'.ran
           /\ ~teardown'.raised
           /\ teardown'.warned = teardown'.offThrew
           /\ teardown'.offCalled = hasRegisteredRef ]_vars

\* a teardown whose detach threw has ended
C3_Witness ==
    /\ teardown.ran /\ teardown.offThrew /\ teardown.warned
    /\ ~hasRegisteredRef
    /\ pc \in {"effect", "unmounted"}

C5_PanelAlwaysExpanded ==
    (Handled /\ PanelWasOpenNotFullscreen) =>
        /\ panelStore.isFullscreen /\ panelStore.showOverview
        /\ Count(res.effects, "onShowDetailedInfo") = 0

(***************************************************************************)
(* C5  (amended) Every handler invocation that finds the panel open and    *)
(*     not fullscreen does not invoke the detail callback, and when it     *)
(*     has passed the map, callback, style and zoom guards it leaves the   *)
(*     store fullscreen with the overview shown and isOpen as it was;      *)
(*     when one of those guards fails it leaves the store as it was.       *)
(***************************************************************************)
C5_PanelExpandedPastGuards ==
    (Handled /\ PanelWasOpenNotFullscreen) =>
        /\ Count(res.effects, "onShowDetailedInfo") = 0
        /\ IF GuardsPassed
           THEN /\ panelStore.isFullscreen /\ panelStore.showOverview
                /\ panelStore.isOpen
           ELSE panelStore = res.before

\* the panel was expanded by a click over a building feature
C5_Witness ==
    /\ Handled /\ TookPanelBranch
    /\ ~res.before.showOverview
    /\ Len(click.event.rendered) > 0
    /\ Topmost.layer \in Range(unclusteredLayerIds)
    /\ panelStore.isFullscreen /\ panelStore.showOverview

(***************************************************************************)
(* C6  One click event dispatched by the map leads to at most one          *)
(*     invocation of the detail callback, counting every click listener    *)
(*     the coordinator has attached to that map.                           *)
(* Fails with C1: two attached listeners each invoke the callback.         *)
(***************************************************************************)
C6_AtMostOneCallbackPerClick == click.map # NoMap => click.calls <= 1

(***************************************************************************)
(* C7  The coordinates of the record passed to the detail callback are     *)
(*     the topmost feature's own when its geometry is a Point and the      *)
(*     click's (lng, lat) otherwise, never those the extractor set.        *)
(***************************************************************************)
C7_Coordinates ==
    Handled =>
        \A i \in 1..Len(res.effects) :
            res.effects[i].op = "onShowDetailedInfo" =>
                res.effects[i].arg.info.coordinates =
                    IF Topmost.geometry.type = "Point"
                    THEN Topmost.geometry.coordinates
                    ELSE click.event.lngLat

\* the callback got the coordinates of a Point feature
C7_Witness ==
    /\ Handled
    /\ Count(res.effects, "onShowDetailedInfo") = 1
    /\ Topmost.geometry.type = "Point"
    /\ \E i \in 1..Len(res.effects) :
          /\ res.effects[i].op = "onShowDetailedInfo"
          /\ res.effects[i].arg.info.coordinates = PointCoordinates

(***************************************************************************)
(* C8  A handler invocation that passes the readiness, zoom and panel      *)
(*     guards and whose topmost queried feature has a layer id in neither  *)
(*     the building nor the historical list invokes no callback, runs no   *)
(*     extractor and emits exactly one warning.                            *)
(***************************************************************************)
C8_UnclassifiedWarns ==
    (Handled /\ Unclassified) =>
        /\ Count(res.effects, "onShowDetailedInfo") = 0
        /\ Ops(res.effects) \cap ExtractorOps = {}
        /\ Count(res.effects, "console.warn") = 1

\* an invocation met a feature of a layer in neither list
C8_Witness ==
    /\ Handled /\ Unclassified
    /\ Topmost.layer = OtherLayer
    /\ Count(res.effects, "console.warn") = 1

(***************************************************************************)
(* C9  (as claimed) Every handler invocation that neither invokes the      *)
(*     callback nor expands the panel is a silent no-op: the event is not  *)
(*     claimed, nothing is logged and the store is unchanged.              *)
(* Fails on the unclassified-layer path, which claims the event and warns. *)
(***************************************************************************)
Silent ==
    /\ Ops(res.effects) \cap (ClaimOps \cup LogOps) = {}
    /\ res.store = res.before
    /\ panelStore = res.before

C9_EverySilent ==
    (Handled /\ Count(res.effects, "onShowDetailedInfo") = 0 /\ ~TookPanelBranch)
        => Silent

(***************************************************************************)
(* C9  (amended) Every handler invocation that neither invokes the         *)
(*     callback nor expands the panel, other than the one that meets an    *)
(*     unclassified layer, is a silent no-op: the event is not claimed,    *)
(*     nothing is logged and the store is unchanged.  On the unclassified  *)
(*     path the event is claimed and one warning is logged.                *)
(***************************************************************************)
C9_SilentButUnclassified ==
    (Handled /\ Count(res.effects, "onShowDetailedInfo") = 0 /\ ~TookPanelBranch)
        => IF Unclassified
           THEN /\ ClaimOps \subseteq Ops(res.effects)
                /\ Count(res.effects, "console.warn") = 1
                /\ res.store = res.before
           ELSE Silent

\* an invocation returned at a topmost feature without a layer id
C9_Witness ==
    /\ Handled /\ GotTopmost
    /\ Topmost.layer = NoLayer
    /\ Silent

(***************************************************************************)
(* C10 A handler invocation that takes the panel-expand branch claims the  *)
(*     event: default handling is suppressed and propagation is stopped.   *)
(* Fails: the branch only returns false, which the map's dispatch ignores. *)
(***************************************************************************)
C10_PanelBranchClaims ==
    (Handled /\ TookPanelBranch) => ClaimOps \subseteq Ops(res.effects)

(***************************************************************************)
(* C11 A handler invocation that passes the map, callback, style, policy,  *)
(*     zoom and panel guards and whose topmost queried feature has a       *)
(*     layer id in the building list invokes the detail callback exactly   *)
(*     once, within the invocation, with the record of the building        *)
(*     extractor; with that of the historical extractor when the id is     *)
(*     only in the historical list.                                        *)
(***************************************************************************)
\* the invocation called extractor op once, the other extractor never, and
\* then its own callback once with the record of that extractor
CalledOnceWith(op, kind) ==
    /\ Count(res.effects, "onShowDetailedInfo") = 1
    /\ Count(res.effects, op) = 1
    /\ Ops(res.effects) \cap ExtractorOps = {op}
    /\ \A i \in 1..Len(res.effects) :
          res.effects[i].op = "onShowDetailedInfo" =>
              /\ res.effects[i].arg.callback = res.handler.onShowDetailedInfo
              /\ res.effects[i].arg.info.kind = kind
              /\ res.effects[i].arg.info.layer = Topmost.layer
              /\ \E j \in 1..(i - 1) : res.effects[j].op = op

C11_CallbackOnceWithExtractorRecord ==
    (Handled /\ GotTopmost /\ Topmost.layer # NoLayer) =>
        /\ Topmost.layer \in Range(unclusteredLayerIds) =>
              CalledOnceWith("getBuildingLocationInfo", "building")
        /\ ( /\ Topmost.layer \notin Range(unclusteredLayerIds)
             /\ Topmost.layer \in Range(click.event.historicalAtClassify) ) =>
              CalledOnceWith("getHistoricalLocationInfo", "historical")

\* a click at a zoom above minZoomLevel, panel closed, on a building feature
C11_Witness ==
    /\ Handled /\ GotTopmost
    /\ ~res.before.isOpen
    /\ Topmost.layer \in Range(unclusteredLayerIds)
    /\ CalledOnceWith("getBuildingLocationInfo", "building")

(***************************************************************************)
(* C12 A handler invocation that reaches the panel check with the store at *)
(*     {isOpen: true, isFullscreen: false} leaves it at {isOpen: true,     *)
(*     isFullscreen: true, showOverview: true}, queries no features and    *)
(*     invokes no callback; the same click made again afterwards is not    *)
(*     intercepted by the panel rule and goes on to the feature query.     *)
(***************************************************************************)
ExpandedPanel == [isOpen |-> TRUE, isFullscreen |-> TRUE, showOverview |-> TRUE]

\* the interactive layer list of the click being handled
QueriedLayerIds == unclusteredLayerIds \o click.event.historicalAtQuery

\* the same handler run on the same event in the state the invocation left
SecondClick ==
    runHandler(res.handler, click.event, styleLoaded, panelStore,
               unclusteredLayerIds)

\* r is the outcome of an invocation that went past the panel check to the
\* feature query: the store is as it found it, and the map is queried first
\* of all whenever there is a layer to query
ProceedsToQuery(r, store) ==
    /\ r.store = store
    /\ Len(QueriedLayerIds) > 0 =>
          /\ Len(r.effects) > 0
          /\ r.effects[1] = Effect("queryRenderedFeatures", QueriedLayerIds)

C12_PanelExpandedThenPassed ==
    Handled =>
        /\ TookPanelBranch =>
              /\ panelStore = ExpandedPanel
              /\ res.effects = <<>>
              /\ ProceedsToQuery(SecondClick, ExpandedPanel)
        /\ (GuardsPassed /\ res.before.isOpen /\ res.before.isFullscreen) =>
              ProceedsToQuery(res, res.before)

\* an expanding click over a feature, whose repetition reaches that feature
C12_Witness ==
    /\ Handled /\ TookPanelBranch
    /\ Len(click.event.rendered) > 0
    /\ panelStore = ExpandedPanel
    /\ Len(SecondClick.effects) > 1

(***************************************************************************)
(* C13 The hook writes the panel store only in the panel-expand branch of  *)
(*     the handler, and there only isFullscreen and showOverview: isOpen   *)
(*     is never changed by it, and every other click path, registration    *)
(*     and teardown leave the store as it was.                             *)
(***************************************************************************)
\* the hook's code is what runs next: a handler invocation, a style.load
\* callback, the effect or its cleanup
HookRunsNext ==
    \/ clickQueue # <<>>
    \/ firing # <<>>
    \/ pc \in {"effect", "cleanup", "unmount"}

C13_StoreWrittenOnlyByPanelBranch ==
    [][ HookRunsNext =>
          \/ panelStore' = panelStore
          \/ /\ clickQueue # <<>>
             /\ panelOpenNotFullscreen(panelStore)
             /\ TookPanelBranch'
             /\ panelStore' = [panelStore EXCEPT !.isFullscreen = TRUE,
                                                 !.showOverview = TRUE] ]_vars

\* the panel-expand branch has written the store
C13_Witness ==
    /\ Handled /\ TookPanelBranch
    /\ panelStore # res.before
    /\ panelStore.isOpen = res.before.isOpen

(***************************************************************************)
(* C14 A handler invocation whose topmost queried feature has a layer id   *)
(*     claims the event (preventDefault on the map event; preventDefault,  *)
(*     stopPropagation and stopImmediatePropagation on the native event)   *)
(*     before any extractor or callback runs, also when the feature turns  *)
(*     out unclassified; when the topmost feature has no layer id the      *)
(*     event is not claimed and the callback is not invoked.               *)
(***************************************************************************)
\* the four claiming calls come right after the map query, once each, and
\* whatever the invocation does besides comes after them
ClaimedFirst(effects) ==
    /\ Len(effects) > Len(claimEvent)
    /\ effects[1].op = "queryRenderedFeatures"
    /\ SubSeq(effects, 2, 1 + Len(claimEvent)) = claimEvent
    /\ \A op \in ClaimOps : Count(effects, op) = 1
    /\ \A i \in 1..Len(effects) :
          effects[i].op \in ExtractorOps \cup LogOps \cup {"onShowDetailedInfo"}
              => i > 1 + Len(claimEvent)

C14_ClaimedBeforeDispatch ==
    (Handled /\ GotTopmost) =>
        IF Topmost.layer # NoLayer
        THEN ClaimedFirst(res.effects)
        ELSE /\ Ops(res.effects) \cap ClaimOps = {}
             /\ Count(res.effects, "onShowDetailedInfo") = 0

\* a claimed click on a feature of a historical layer that was dispatched
C14_Witness ==
    /\ Handled /\ GotTopmost
    /\ Topmost.layer = HistoricalLayer
    /\ ClaimedFirst(res.effects)
    /\ Count(res.effects, "getHistoricalLocationInfo") = 1

(***************************************************************************)
(* C15 Once the teardown of a registration has run, and no new             *)
(*     registration has started for its handler, no click listener of      *)
(*     that registration is attached afterwards and the flag is not set    *)
(*     by it; a "style.load" that arrives after a teardown which happened  *)
(*     while the one-shot subscription was pending attaches nothing.       *)
(* Fails: the cleanup leaves the one-shot subscription on the map, and its *)
(* callback attaches the handler and sets the flag when the event comes.   *)
(***************************************************************************)
\* the one-shot callback about to run belongs to a registration whose
\* teardown has run: its handler is not the one of the live effect run
StaleCallbackNext == firing # <<>> /\ Head(firing) # cleanupFn

C15_NothingAttachedAfterTeardown ==
    [][ StaleCallbackNext =>
          /\ clickListeners' = clickListeners
          /\ hasRegisteredRef' = hasRegisteredRef ]_vars

(***************************************************************************)
(* C16 The flag is true exactly when a click listener attached by the hook *)
(*     is active on the current map instance: whenever it is false no      *)
(*     click listener of the hook is attached to any map, and whenever it  *)
(*     is true, between commits, one is attached to the current map.       *)
(* Fails both ways, through the one-shot subscription that outlives the    *)
(* teardown: its callback sets the flag for a map that is no longer the    *)
(* current one, and the listener it attaches stays when a later teardown   *)
(* resets the flag.                                                        *)
(***************************************************************************)
C16_FlagIffListenerOnCurrentMap ==
    /\ ~hasRegisteredRef => \A m \in Maps : clickListeners[m] = <<>>
    /\ (pc = "idle" /\ hasRegisteredRef) =>
          /\ mapInstance # NoMap
          /\ clickListeners[mapInstance] # <<>>

(***************************************************************************)
(* C17 If a map instance is supplied, no teardown occurs and the style is  *)
(*     loaded or eventually becomes and stays loaded, the hook eventually  *)
(*     is Registered (flag true, a click listener attached to that map),   *)
(*     also when isStyleLoaded() was false at the registration attempt.    *)
(* Fails: after a registration attempt that found isStyleLoaded() false    *)
(* the hook only waits for "style.load" and never looks at isStyleLoaded() *)
(* again, so a style that becomes loaded without that event being fired    *)
(* anew leaves it Unregistered for ever.                                   *)
(***************************************************************************)
C17_EventuallyRegistered ==
    \A m \in Maps :
        (mapInstance = m /\ <>[]styleLoaded[m]) =>
            <>(hasRegisteredRef /\ clickListeners[m] # <<>>)

(***************************************************************************)
(* C18 If the historical layer list is the same at the query and at the    *)
(*     classification of one handler invocation, and the feature query     *)
(*     returns only features of the layers it was restricted to, the       *)
(*     unclassified branch is not taken: every invocation that claims the  *)
(*     event in the feature branch also invokes the callback.              *)
(***************************************************************************)
HistoricalListStable ==
    click.event.historicalAtQuery = click.event.historicalAtClassify

\* every feature the map returned is of a layer the query named
QueryRestricted ==
    \A i \in 1..Len(click.event.rendered) :
        click.event.rendered[i].layer \in Range(QueriedLayerIds)

C18_ClaimedImpliesCallback ==
    (Handled /\ HistoricalListStable /\ QueryRestricted) =>
        /\ "console.warn" \notin Ops(res.effects)
        /\ Ops(res.effects) \cap ClaimOps # {} =>
              /\ Count(res.effects, "onShowDetailedInfo") = 1
              /\ res.ret = "false"

\* a claimed click on a feature of the historical list, which did not change
C18_Witness ==
    /\ Handled /\ HistoricalListStable /\ QueryRestricted
    /\ GotTopmost
    /\ Topmost.layer \in Range(click.event.historicalAtClassify)
    /\ ClaimOps \subseteq Ops(res.effects)
    /\ Count(res.effects, "onShowDetailedInfo") = 1

(***************************************************************************)
(* C19 queryInteractiveFeatures returns an empty feature list both when    *)
(*     the interactive layer id list is empty, without querying the map,   *)
(*     and when the map instance is absent.                                *)
(* Fails in its second case: with a layer to query and no map instance the *)
(* optional call yields undefined, not a list.                             *)
(***************************************************************************)
\* res is the outcome of a call of the adapter
Queried == "query" \in DOMAIN res

ReturnsEmptyList(q) == q.defined /\ q.features = <<>>

C19_EmptyListInBothCases ==
    Queried =>
        /\ Len(res.layerIds) = 0 => ReturnsEmptyList(res.query) /\ ~res.query.queried
        /\ res.map = NoMap => ReturnsEmptyList(res.query)

\* as the code has it: the empty list for an empty layer list, map or no
\* map; undefined for a layer list that is not empty and no map; the map's
\* answer otherwise; the map is queried in the last case only
C19_EmptyListOrUndefined ==
    Queried =>
        /\ ~res.query.queried <=> (Len(res.layerIds) = 0 \/ res.map = NoMap)
        /\ Len(res.layerIds) = 0 => ReturnsEmptyList(res.query)
        /\ (Len(res.layerIds) > 0 /\ res.map = NoMap) =>
              ~res.query.defined
        /\ (Len(res.layerIds) > 0 /\ res.map # NoMap) =>
              res.query.defined /\ res.query.features = res.rendered

\* the adapter was called with a historical layer to query and no map
C19_Witness ==
    /\ Queried
    /\ res.map = NoMap
    /\ res.layerIds = <<HistoricalLayer>>
    /\ ~res.query.defined

=============================================================================
